---- MODULE Spec2Model ----
(***************************************************************************)
(* AliyunSTTStream (voice-assistant/backend/custom_aliyun_stt.py): one     *)
(* streaming speech-recognition session.  The stream's main task (_run)    *)
(* opens the WebSocket and gathers two coroutines, the audio sender        *)
(* (_send_audio_task) and the result receiver (_receive_task); aclose()    *)
(* tears the session down.  Every action below is the code between two     *)
(* awaits of one coroutine: asyncio runs one task at a time, so such a     *)
(* stretch is atomic, and a task is interrupted only at an await.          *)
(***************************************************************************)
EXTENDS Integers, Sequences, FiniteSets, TLC

\* ------------------------------------------------------------------ bounds
MaxFrames == 2      \* audio frames the caller pushes
MaxInbound == 3     \* messages the remote service sends
MaxCloses == 2      \* calls of aclose()

\* ------------------------------------------------------------------ state
VARIABLES
  running,             \* self._running
  closed,              \* self._closed
  task_started_event,  \* self._task_started_event is set
  ws,                  \* self._ws: "None" or "conn"
  conn,                \* the connection: "unopened", "open", "closed"
  input_ch,            \* self._input_ch: queued frames (EndMarker is None)
  input_closed,        \* self._input_ch was closed (end of input)
  event_ch,            \* events sent into self._event_ch, in order
  event_closed,        \* self._event_ch was closed
  sent,                \* messages written to the WebSocket, in order
  unread,              \* messages of the remote service not yet received
  mainPc, sendPc, recvPc,          \* position of the three coroutines
  mainCancel, sendCancel, recvCancel,  \* a cancellation is pending
  mainExit,            \* how _run leaves its finally block
  aclosePc,            \* position of each aclose() call
  nPushed,             \* frames pushed so far (the next frame is nPushed+1)
  nInbound,            \* messages the remote service has sent so far
  timedOut,            \* history: the wait for task-started timed out
  failedSeen,          \* history: a task-failed event was handled
  peerClosed,          \* history: the receiver saw the WebSocket fail or close
  terminalSeen,        \* history: task-finished or task-failed was handled
  connectFailed,       \* history: ws_connect raised
  nWsClose,            \* history: calls of self._ws.close() by _run and aclose
  concurrent,          \* history: an aclose() began while another was pending
  rerunPc,             \* a further invocation of _run: idle, returned, connecting
  handlePc,            \* handle_stt of main.py: iterating, done
  task_id,             \* self._task_id
  local_task_id        \* task_id of _send_audio_task ("None" until generated)

vars == <<running, closed, task_started_event, ws, conn, input_ch, input_closed,
          event_ch, event_closed, sent, unread, mainPc, sendPc, recvPc,
          mainCancel, sendCancel, recvCancel, mainExit, aclosePc, nPushed,
          nInbound, timedOut, failedSeen, peerClosed, terminalSeen, connectFailed,
          nWsClose, concurrent, rerunPc, handlePc, task_id,
          local_task_id>>

flagVars == <<running, closed, task_started_event>>
chanVars == <<input_ch, input_closed, event_ch, event_closed>>
histVars == <<timedOut, failedSeen, peerClosed, terminalSeen>>
cancelVars == <<mainCancel, sendCancel, recvCancel>>
envVars == <<nPushed, nInbound>>
idVars == <<task_id, local_task_id>>

Callers == 1..MaxCloses
EndMarker == 0
TaskDone(pc) == pc \in {"done", "cancelled"}

\* ------------------------------------------------------------- messages
\* f"task-{utils.shortuuid()}" and str(uuid.uuid4()): each call gives a fresh
\* value, and a uuid never starts with "task-".
ShortUuidTaskId(n) == <<"task-", n>>
Uuid4(n) == <<"uuid4", n>>

RunTaskMsg(id) == [action |-> "run-task", frame |-> 0, task_id |-> id]
FinishTaskMsg(id) == [action |-> "finish-task", frame |-> 0, task_id |-> id]
BinaryMsg(f) == [action |-> "binary", frame |-> f, task_id |-> <<>>]

\* Recognised texts: empty, blank, plain, and padded with blanks.
Texts == {<<>>, <<" ">>, <<"a">>, <<" ", "a", " ">>}

WsMsg(t, e) == [type |-> t, event |-> e, hasSentence |-> FALSE, text |-> <<>>,
                sentence_end |-> FALSE, heartbeat |-> FALSE]
ResultMsgs == {[type |-> "TEXT", event |-> "result-generated", hasSentence |-> TRUE,
                text |-> t, sentence_end |-> e, heartbeat |-> h] :
                  t \in Texts, e \in BOOLEAN, h \in BOOLEAN}
InboundMsgs ==
  {WsMsg("TEXT", e) : e \in {"task-started", "result-generated", "task-finished",
                             "task-failed", "other"}}
  \cup ResultMsgs
  \cup {WsMsg(t, "") : t \in {"TEXT-invalid", "BINARY", "ERROR", "CLOSED"}}


\* ------------------------------------------------------- pure functions
RECURSIVE LStrip(_)
\* str.strip(), leading part: drop the blanks at the front
LStrip(t) == IF Len(t) > 0 /\ t[1] = " " THEN LStrip(SubSeq(t, 2, Len(t))) ELSE t

RECURSIVE RStrip(_)
\* str.strip(), trailing part: drop the blanks at the end
RStrip(t) == IF Len(t) > 0 /\ t[Len(t)] = " " THEN RStrip(SubSeq(t, 1, Len(t) - 1)) ELSE t

Strip(t) == RStrip(LStrip(t))

SpeechEvent(type, text) == [type |-> type, text |-> text]

\* A variant that forgets the heartbeat marker.
ResultEvents_NoHeartbeat(m) ==
  IF m.hasSentence /\ Len(Strip(m.text)) > 0
    THEN <<SpeechEvent(IF m.sentence_end THEN "FINAL_TRANSCRIPT"
                       ELSE "INTERIM_TRANSCRIPT", Strip(m.text))>>
    ELSE <<>>

\* The events one result-generated message puts into the event channel.
ResultEvents(m) ==
  IF m.hasSentence /\ Len(Strip(m.text)) > 0 /\ ~m.heartbeat
    THEN <<SpeechEvent(IF m.sentence_end THEN "FINAL_TRANSCRIPT"
                       ELSE "INTERIM_TRANSCRIPT", Strip(m.text))>>
    ELSE <<>>

\* A variant that takes the newest queued item instead of the oldest.
ChanRecv_Newest(ch) == [item |-> ch[Len(ch)], rest |-> SubSeq(ch, 1, Len(ch) - 1)]

\* One iteration of "async for frame in self._input_ch": the oldest item.
ChanRecv(ch) == [item |-> Head(ch), rest |-> Tail(ch)]

\* A variant that leaves the loop without writing the finish command.
FinishTask_Never(s) == s

\* A variant that writes the finish command twice.
FinishTask_Twice(s) ==
  IF conn = "open"
    THEN s \o <<FinishTaskMsg(local_task_id), FinishTaskMsg(local_task_id)>> ELSE s

\* The end of _send_audio_task: finish-task, unless the WebSocket is closed.
FinishTask(s) == IF conn = "open" THEN Append(s, FinishTaskMsg(local_task_id)) ELSE s

\* ---------------------------------------------------------------- Init
Init ==
  /\ running = FALSE
  /\ closed = FALSE
  /\ task_started_event = FALSE
  /\ ws = "None"
  /\ conn = "unopened"
  /\ input_ch = <<>>
  /\ input_closed = FALSE
  /\ event_ch = <<>>
  /\ event_closed = FALSE
  /\ sent = <<>>
  /\ unread = 0
  /\ mainPc = "init"
  /\ sendPc = "absent"
  /\ recvPc = "absent"
  /\ mainCancel = FALSE
  /\ sendCancel = FALSE
  /\ recvCancel = FALSE
  /\ mainExit = "none"
  /\ aclosePc = [c \in Callers |-> "idle"]
  /\ nPushed = 0
  /\ nInbound = 0
  /\ timedOut = FALSE
  /\ failedSeen = FALSE
  /\ peerClosed = FALSE
  /\ terminalSeen = FALSE
  /\ connectFailed = FALSE
  /\ nWsClose = 0
  /\ concurrent = FALSE
  /\ rerunPc = "idle"
  /\ handlePc = "iterating"
  /\ task_id = ShortUuidTaskId(1)
  /\ local_task_id = <<>>

\* ------------------------------------------------- the caller, the remote
\* push_frame: the caller queues the next audio frame.
PushFrame ==
  /\ nPushed < MaxFrames
  /\ ~input_closed
  /\ nPushed' = nPushed + 1
  /\ input_ch' = Append(input_ch, nPushed + 1)
  /\ UNCHANGED <<flagVars, ws, conn, input_closed, event_ch, event_closed, sent, unread,
                 mainPc, sendPc, recvPc, cancelVars, mainExit, aclosePc, nInbound,
                 histVars>>
  /\ UNCHANGED <<connectFailed, nWsClose, concurrent, idVars, rerunPc, handlePc>>

\* The input channel is closed: the sender's "async for" ends once it is drained.
EndInput ==
  /\ ~input_closed
  /\ input_closed' = TRUE
  /\ UNCHANGED <<flagVars, ws, conn, input_ch, event_ch, event_closed, sent, unread,
                 mainPc, sendPc, recvPc, cancelVars, mainExit, aclosePc, envVars,
                 histVars>>
  /\ UNCHANGED <<connectFailed, nWsClose, concurrent, idVars, rerunPc, handlePc>>

\* The remote service writes a message.  What it says plays no part until
\* the receiver reads it, so the content is drawn when it is read.
ServerSend ==
  /\ conn = "open"
  /\ nInbound < MaxInbound
  /\ unread' = unread + 1
  /\ nInbound' = nInbound + 1
  /\ UNCHANGED <<flagVars, ws, conn, chanVars, sent, mainPc, sendPc, recvPc,
                 cancelVars, mainExit, aclosePc, nPushed, histVars>>
  /\ UNCHANGED <<connectFailed, nWsClose, concurrent, idVars, rerunPc, handlePc>>

\* ------------------------------------------------------------ _run
\* First step of the main task: the re-entry guard, then ws_connect is awaited.
\* A task cancelled before its first step never enters the coroutine.
RunStart ==
  /\ mainPc = "init"
  /\ IF mainCancel
       THEN /\ mainPc' = "cancelled"
            /\ mainCancel' = FALSE
            /\ UNCHANGED running
       ELSE IF running
         THEN /\ mainPc' = "done"
              /\ UNCHANGED <<running, mainCancel>>
         ELSE /\ running' = TRUE
              /\ mainPc' = "connecting"
              /\ UNCHANGED mainCancel
  /\ UNCHANGED <<closed, task_started_event, ws, conn, chanVars, sent, unread, sendPc,
                 recvPc, sendCancel, recvCancel, mainExit, aclosePc, envVars, histVars>>
  /\ UNCHANGED <<connectFailed, nWsClose, concurrent, idVars, rerunPc, handlePc>>

\* ws_connect returns: self._ws is set and gather starts both coroutines.
RunConnected ==
  /\ mainPc = "connecting"
  /\ ~mainCancel
  /\ ws' = "conn"
  /\ conn' = "open"
  /\ sendPc' = "init"
  /\ recvPc' = "recv"
  /\ mainPc' = "gather"
  /\ UNCHANGED <<flagVars, chanVars, sent, unread, cancelVars, mainExit, aclosePc,
                 envVars, histVars>>
  /\ UNCHANGED <<connectFailed, nWsClose, concurrent, idVars, rerunPc, handlePc>>

\* ws_connect raises, or the task is cancelled while connecting: the finally
\* block runs with self._ws still None.
RunConnectFailed ==
  /\ mainPc = "connecting"
  /\ running' = FALSE
  /\ mainPc' = IF mainCancel THEN "cancelled" ELSE "done"
  /\ mainCancel' = FALSE
  /\ UNCHANGED <<closed, task_started_event, ws, conn, chanVars, sent, unread, sendPc,
                 recvPc, sendCancel, recvCancel, mainExit, aclosePc, envVars, histVars>>
  /\ connectFailed' = (connectFailed \/ ~mainCancel)
  /\ UNCHANGED <<nWsClose, concurrent, idVars, rerunPc, handlePc>>

\* A variant whose finally block never closes the WebSocket.
NeedsClose_Never == FALSE

\* "if self._ws and not self._ws.closed" of the finally block.
NeedsClose == ws # "None" /\ conn # "closed"

\* A variant of gather that returns when the first coroutine ends.
GatherDone_FirstCompleted == TaskDone(sendPc) \/ TaskDone(recvPc)

\* "await asyncio.gather(send, receive, return_exceptions=True)" is over.
GatherDone == TaskDone(sendPc) /\ TaskDone(recvPc)

\* gather ends once both coroutines have ended (a cancelled gather raises
\* CancelledError only then); the finally block starts closing the WebSocket.
RunGathered ==
  /\ mainPc = "gather"
  /\ GatherDone
  /\ running' = FALSE
  /\ mainCancel' = FALSE
  /\ IF NeedsClose
       THEN /\ conn' = "closed"
            /\ nWsClose' = nWsClose + 1
            /\ mainPc' = "closing"
            /\ mainExit' = IF mainCancel THEN "cancelled" ELSE "done"
            /\ UNCHANGED ws
       ELSE /\ ws' = "None"
            /\ mainPc' = IF mainCancel THEN "cancelled" ELSE "done"
            /\ UNCHANGED <<conn, mainExit, nWsClose>>
  /\ UNCHANGED <<closed, task_started_event, chanVars, sent, unread, sendPc, recvPc,
                 sendCancel, recvCancel, aclosePc, envVars, histVars>>
  /\ UNCHANGED <<connectFailed, concurrent, idVars, rerunPc, handlePc>>

\* "await self._ws.close()" of the finally block returns: self._ws = None.
RunClosed ==
  /\ mainPc = "closing"
  /\ ~mainCancel
  /\ ws' = "None"
  /\ mainPc' = mainExit
  /\ UNCHANGED <<flagVars, conn, chanVars, sent, unread, sendPc, recvPc, cancelVars,
                 mainExit, aclosePc, envVars, histVars>>
  /\ UNCHANGED <<connectFailed, nWsClose, concurrent, idVars, rerunPc, handlePc>>

\* A cancellation arrives while the finally block awaits the close: the rest
\* of the block (self._ws = None) is skipped.
RunCloseCancelled ==
  /\ mainPc = "closing"
  /\ mainCancel
  /\ mainCancel' = FALSE
  /\ mainPc' = "cancelled"
  /\ UNCHANGED <<flagVars, ws, conn, chanVars, sent, unread, sendPc, recvPc, sendCancel,
                 recvCancel, mainExit, aclosePc, envVars, histVars>>
  /\ UNCHANGED <<connectFailed, nWsClose, concurrent, idVars, rerunPc, handlePc>>

\* ------------------------------------------------- _send_audio_task
senderFrame == <<flagVars, ws, conn, event_ch, event_closed, unread, mainPc, recvPc,
                 mainCancel, recvCancel, mainExit, aclosePc, envVars, failedSeen,
                 peerClosed, terminalSeen>>

\* A variant that drains the queue when it is cancelled.
SendCancelled_Drain ==
  /\ sendPc \in {"init", "awaitStart", "loop"}
  /\ sendCancel
  /\ sendPc' = "cancelled"
  /\ sendCancel' = FALSE
  /\ sent' = IF sendPc = "loop" /\ input_ch # <<>> /\ Head(input_ch) # EndMarker
               THEN Append(sent, BinaryMsg(Head(input_ch))) ELSE sent
  /\ UNCHANGED <<input_ch, input_closed, timedOut, senderFrame>>
  /\ UNCHANGED <<connectFailed, nWsClose, concurrent, idVars, rerunPc, handlePc>>

\* CancelledError is raised at the await the sender is suspended in, and re-raised.
SendCancelled ==
  /\ sendPc \in {"init", "awaitStart", "loop"}
  /\ sendCancel
  /\ sendPc' = "cancelled"
  /\ sendCancel' = FALSE
  /\ UNCHANGED <<sent, input_ch, input_closed, timedOut, senderFrame>>
  /\ UNCHANGED <<connectFailed, nWsClose, concurrent, idVars, rerunPc, handlePc>>

\* The sender generates its task id and writes the run-task command; a closed
\* WebSocket makes send_str raise, which the sender's "except Exception" swallows.
SendRunTask ==
  /\ sendPc = "init"
  /\ ~sendCancel
  /\ local_task_id' = Uuid4(1)
  /\ IF conn = "open"
       THEN sent' = Append(sent, RunTaskMsg(local_task_id')) /\ sendPc' = "awaitStart"
       ELSE sent' = sent /\ sendPc' = "done"
  /\ UNCHANGED <<input_ch, input_closed, timedOut, sendCancel, senderFrame>>
  /\ UNCHANGED <<connectFailed, nWsClose, concurrent, task_id, rerunPc, handlePc>>

\* A variant that does not wait for the event.
StartAcknowledged_NoWait == TRUE

\* wait_for(self._task_started_event.wait()) returns.
StartAcknowledged == task_started_event

\* A variant in which a cancelled wait still goes on when the event is set.
Interrupted_Never == FALSE

\* A cancellation requested while the sender is suspended is raised at its await.
Interrupted == sendCancel

SendStarted ==
  /\ sendPc = "awaitStart"
  /\ ~Interrupted
  /\ StartAcknowledged
  /\ sendPc' = "loop"
  /\ UNCHANGED <<sent, input_ch, input_closed, timedOut, sendCancel, senderFrame>>
  /\ UNCHANGED <<connectFailed, nWsClose, concurrent, idVars, rerunPc, handlePc>>

\* A variant that goes on to the send loop after the timeout.
AfterTimeoutPc_FallThrough == "loop"

\* "except asyncio.TimeoutError: return".
AfterTimeoutPc == "done"

\* The 10 s timeout fires before the event is set.
SendTimeout ==
  /\ sendPc = "awaitStart"
  /\ ~Interrupted
  /\ ~task_started_event
  /\ sendPc' = AfterTimeoutPc
  /\ timedOut' = TRUE
  /\ UNCHANGED <<sent, input_ch, input_closed, sendCancel, senderFrame>>
  /\ UNCHANGED <<connectFailed, nWsClose, concurrent, idVars, rerunPc, handlePc>>

\* One iteration of the send loop, up to its next await; leaving the loop
\* runs on into the finish-task block without an await in between.
SendLoop ==
  /\ sendPc = "loop"
  /\ ~sendCancel
  /\ IF input_ch # <<>>
       THEN LET r == ChanRecv(input_ch) IN
            /\ input_ch' = r.rest
            /\ IF closed \/ r.item = EndMarker \/ conn # "open"
                 THEN sent' = FinishTask(sent) /\ sendPc' = "done"
                 ELSE sent' = Append(sent, BinaryMsg(r.item)) /\ sendPc' = "loop"
       ELSE /\ input_closed
            /\ input_ch' = input_ch
            /\ sent' = FinishTask(sent)
            /\ sendPc' = "done"
  /\ UNCHANGED <<input_closed, timedOut, sendCancel, senderFrame>>
  /\ UNCHANGED <<connectFailed, nWsClose, concurrent, idVars, rerunPc, handlePc>>

\* ---------------------------------------------------- _receive_task
receiverFrame == <<running, closed, ws, input_ch, input_closed, event_closed, sent,
                   mainPc, sendPc, mainCancel, sendCancel, mainExit, aclosePc, envVars,
                   timedOut>>

\* CancelledError is raised at the receive the receiver is suspended in.
RecvCancelled ==
  /\ recvPc = "recv"
  /\ recvCancel
  /\ recvPc' = "cancelled"
  /\ recvCancel' = FALSE
  /\ UNCHANGED <<task_started_event, conn, event_ch, unread, failedSeen, peerClosed,
                 terminalSeen, receiverFrame>>
  /\ UNCHANGED <<connectFailed, nWsClose, concurrent, idVars, rerunPc, handlePc>>

\* A variant that reads on after task-finished.
StopsReceiving_NotOnFinished(m) ==
  \/ m.type \in {"TEXT-invalid", "ERROR", "CLOSED"}
  \/ m.type = "TEXT" /\ m.event = "task-failed"

\* The messages that end the receive loop: task-finished, task-failed, an
\* error or closure of the WebSocket, and a text json.loads cannot parse.
StopsReceiving(m) ==
  \/ m.type \in {"TEXT-invalid", "ERROR", "CLOSED"}
  \/ m.type = "TEXT" /\ m.event \in {"task-finished", "task-failed"}

\* A variant that puts new events in front of the waiting ones.
EmitEvents_Front(ch, evs) == evs \o ch

\* self._event_ch.send_nowait: the event goes to the end of the channel.
EmitEvents(ch, evs) == ch \o evs

\* One iteration of "async for msg in self._ws", reading message m.
RecvMessage(m) ==
  /\ recvPc = "recv"
  /\ ~recvCancel
  /\ unread > 0
  /\ LET evs == IF m.type = "TEXT" /\ m.event = "result-generated"
                  THEN ResultEvents(m) ELSE <<>>
         raises == evs # <<>> /\ event_closed   \* send_nowait on a closed channel
     IN
     /\ unread' = unread - 1
     /\ task_started_event' =
          (task_started_event \/ (m.type = "TEXT" /\ m.event = "task-started"))
     /\ event_ch' = IF raises THEN event_ch ELSE EmitEvents(event_ch, evs)
     /\ conn' = IF m.type \in {"ERROR", "CLOSED"} THEN "closed" ELSE conn
     /\ peerClosed' = (peerClosed \/ m.type \in {"ERROR", "CLOSED"})
     /\ failedSeen' = (failedSeen \/ (m.type = "TEXT" /\ m.event = "task-failed"))
     /\ terminalSeen' =
          (terminalSeen \/ (m.type = "TEXT" /\ m.event \in {"task-finished", "task-failed"}))
     /\ recvPc' = IF StopsReceiving(m) \/ raises THEN "done" ELSE "recv"
  /\ UNCHANGED <<recvCancel, receiverFrame>>
  /\ UNCHANGED <<connectFailed, nWsClose, concurrent, idVars, rerunPc, handlePc>>

\* ------------------------------------------------------------ aclose
\* A variant that closes the WebSocket without looking at its closed flag.
AcloseTail_NoClosedCheck(c) ==
  IF ws # "None"
    THEN /\ conn' = "closed"
         /\ nWsClose' = nWsClose + 1
         /\ aclosePc' = [aclosePc EXCEPT ![c] = "wsclose"]
         /\ UNCHANGED event_closed
    ELSE /\ event_closed' = TRUE
         /\ aclosePc' = [aclosePc EXCEPT ![c] = "done"]
         /\ UNCHANGED <<conn, nWsClose>>

\* A variant whose tail leaves the event channel open.
AcloseTail_KeepsEvents(c) ==
  IF ws # "None" /\ conn # "closed"
    THEN /\ conn' = "closed"
         /\ nWsClose' = nWsClose + 1
         /\ aclosePc' = [aclosePc EXCEPT ![c] = "wsclose"]
         /\ UNCHANGED event_closed
    ELSE /\ event_closed' = event_closed
         /\ aclosePc' = [aclosePc EXCEPT ![c] = "done"]
         /\ UNCHANGED <<conn, nWsClose>>

\* Lines after the join: close the WebSocket if it is still open (an await),
\* then close the event channel.
AcloseTail(c) ==
  IF ws # "None" /\ conn # "closed"
    THEN /\ conn' = "closed"
         /\ nWsClose' = nWsClose + 1
         /\ aclosePc' = [aclosePc EXCEPT ![c] = "wsclose"]
         /\ UNCHANGED event_closed
    ELSE /\ event_closed' = TRUE
         /\ aclosePc' = [aclosePc EXCEPT ![c] = "done"]
         /\ UNCHANGED <<conn, nWsClose>>

\* aclose() up to its first await: the closed flag, the end marker (a closed
\* channel raises, which is swallowed) and the cancellation of the main task,
\* which a gather in progress passes on to both coroutines.
AcloseBegin(c) ==
  /\ aclosePc[c] = "idle"
  /\ \A d \in Callers : d < c => aclosePc[d] # "idle"   \* calls are numbered as made
  /\ closed' = TRUE
  /\ input_ch' = IF input_closed THEN input_ch ELSE Append(input_ch, EndMarker)
  /\ IF ~TaskDone(mainPc)
       THEN /\ mainCancel' = TRUE
            /\ sendCancel' = (sendCancel \/ (mainPc = "gather" /\ ~TaskDone(sendPc)))
            /\ recvCancel' = (recvCancel \/ (mainPc = "gather" /\ ~TaskDone(recvPc)))
            /\ aclosePc' = [aclosePc EXCEPT ![c] = "join"]
            /\ UNCHANGED <<conn, event_closed, nWsClose>>
       ELSE /\ UNCHANGED cancelVars
            /\ AcloseTail(c)
  /\ UNCHANGED <<running, task_started_event, ws, input_closed, event_ch, sent, unread,
                 mainPc, sendPc, recvPc, mainExit, envVars, histVars>>
  /\ concurrent' = (concurrent \/ \E d \in Callers : aclosePc[d] \in {"join", "wsclose"})
  /\ UNCHANGED <<connectFailed, idVars, rerunPc, handlePc>>

\* A variant that does not wait for the main task.
JoinReturns_NoWait == TRUE

\* "await self._main_task" returns once the main task has ended.
JoinReturns == TaskDone(mainPc)

\* An await of aclose returns: "await self._main_task" (CancelledError is
\* caught), after which the tail runs, or "await self._ws.close()", after
\* which the event channel is closed.
AcloseResumed(c) ==
  /\ IF aclosePc[c] = "wsclose"
       THEN /\ event_closed' = TRUE
            /\ aclosePc' = [aclosePc EXCEPT ![c] = "done"]
            /\ UNCHANGED <<conn, nWsClose>>
       ELSE /\ aclosePc[c] = "join"
            /\ JoinReturns
            /\ AcloseTail(c)
  /\ UNCHANGED <<flagVars, ws, input_ch, input_closed, event_ch, sent, unread, mainPc,
                 sendPc, recvPc, cancelVars, mainExit, envVars, histVars>>
  /\ UNCHANGED <<connectFailed, concurrent, idVars, rerunPc, handlePc>>

\* ------------------------------------------------------ specification
Next ==
  \/ PushFrame
  \/ EndInput
  \/ ServerSend
  \/ RunStart
  \/ RunConnected
  \/ RunConnectFailed
  \/ RunGathered
  \/ RunClosed
  \/ RunCloseCancelled
  \/ SendCancelled
  \/ SendRunTask
  \/ SendStarted
  \/ SendTimeout
  \/ SendLoop
  \/ RecvCancelled
  \/ \E m \in InboundMsgs : RecvMessage(m)
  \/ \E c \in Callers : AcloseBegin(c)
  \/ \E c \in Callers : AcloseResumed(c)

Spec == Init /\ [][Next]_vars

\* _run is invoked once more on the same stream while the invocation made by
\* __init__ is under way: the guard on self._running, and past it the flag is
\* set and ws_connect is awaited.  What an invocation that got past the guard
\* does next is a session of its own and is not followed.
RerunStart ==
  /\ rerunPc = "idle"
  /\ mainPc \in {"connecting", "gather", "closing"}
  /\ IF running
       THEN rerunPc' = "returned" /\ UNCHANGED running
       ELSE rerunPc' = "connecting" /\ running' = TRUE
  /\ UNCHANGED <<closed, task_started_event, ws, conn, chanVars, sent, unread, mainPc,
                 sendPc, recvPc, cancelVars, mainExit, aclosePc, envVars, histVars>>
  /\ UNCHANGED <<connectFailed, nWsClose, concurrent, idVars, handlePc>>

ReentryNext == Next \/ RerunStart

ReentrySpec == Init /\ [][ReentryNext]_vars

\* ------------------------------------- process_participant_audio (main.py)
\* feed_stt is in its loop until it calls aclose(), which it does in its
\* finally block and nowhere else; it has ended when that call has returned.
FeedStt == PushFrame /\ aclosePc[1] = "idle"

\* The audio stream ends, or feeding raises: the finally block calls aclose().
FeedEnds == AcloseBegin(1)

\* One iteration of "async for event in stt_stream": the oldest event is
\* taken and handled (the reply is produced in a task of its own), or the
\* closed and drained channel ends the loop and handle_stt returns.
HandleStt ==
  /\ handlePc = "iterating"
  /\ IF event_ch # <<>>
       THEN event_ch' = Tail(event_ch) /\ UNCHANGED handlePc
       ELSE event_closed /\ handlePc' = "done" /\ UNCHANGED event_ch
  /\ UNCHANGED <<flagVars, ws, conn, input_ch, input_closed, event_closed, sent, unread,
                 mainPc, sendPc, recvPc, cancelVars, mainExit, aclosePc, envVars,
                 histVars>>
  /\ UNCHANGED <<connectFailed, nWsClose, concurrent, idVars, rerunPc>>

\* The steps the program takes by itself: everything but the caller's pushes
\* and closes and the remote service's messages.
ProgramStep ==
  \/ RunStart \/ RunConnected \/ RunConnectFailed \/ RunGathered \/ RunClosed
  \/ RunCloseCancelled \/ SendCancelled \/ SendRunTask \/ SendStarted \/ SendTimeout
  \/ SendLoop \/ RecvCancelled \/ (\E m \in InboundMsgs : RecvMessage(m))
  \/ (\E c \in Callers : AcloseResumed(c))

\* ------------------------------------------------------------ claims
BinaryIdx(s) == {i \in DOMAIN s : s[i].action = "binary"}
NumBinary(s) == Cardinality(BinaryIdx(s))
NumFinish(s) == Cardinality({i \in DOMAIN s : s[i].action = "finish-task"})
RunTaskSent == \E i \in DOMAIN sent : sent[i].action = "run-task"
QueuedFrames == {i \in DOMAIN input_ch : input_ch[i] # EndMarker}

\* C1: every binary audio message on the WebSocket comes after the run-task
\* command, and is sent only once the task-started event has been handled.
C1_AudioAfterStart ==
  \A i \in DOMAIN sent :
    sent[i].action = "binary" =>
      /\ task_started_event
      /\ \E j \in 1..(i - 1) : sent[j].action = "run-task"

C1_Witness == NumBinary(sent) > 0 /\ unread > 0 /\ QueuedFrames # {}

\* C2: the binary messages go out in push order (frames are numbered as they
\* are pushed), none of them twice.
C2_PushOrder ==
  \A i, j \in BinaryIdx(sent) : i < j => sent[i].frame < sent[j].frame

C2_Witness == NumBinary(sent) >= 2

\* C3 (as claimed): once an aclose() has returned on a session that was
\* streaming (run-task sent, task-started handled, no timeout, no terminal
\* event) and whose WebSocket the remote side did not close, exactly one
\* finish-task command has been sent.
C3_FinishExactlyOnce ==
  (/\ \E c \in Callers : aclosePc[c] = "done"
   /\ RunTaskSent /\ task_started_event
   /\ ~timedOut /\ ~terminalSeen /\ ~peerClosed)
    => NumFinish(sent) = 1

\* C4: finish-task is sent at most once and nothing is sent after it.
C4_FinishLast ==
  /\ NumFinish(sent) <= 1
  /\ \A i \in DOMAIN sent : sent[i].action = "finish-task" => i = Len(sent)

C4_Witness ==
  /\ NumBinary(sent) > 0
  /\ sent[Len(sent)].action = "finish-task"
  /\ sendPc = "done"

\* C5: once the closed flag is set, no step sends a binary audio message.
C5_NoAudioAfterClosed == [][closed => NumBinary(sent') = NumBinary(sent)]_vars

C5_Witness ==
  /\ closed
  /\ sendPc = "cancelled"
  /\ NumBinary(sent) > 0
  /\ QueuedFrames # {}

\* C6: a session whose wait for task-started timed out sends no binary audio
\* message, whatever is queued and whatever arrives later.
C6_TimeoutNoAudio == timedOut => NumBinary(sent) = 0

C6_Witness == timedOut /\ task_started_event /\ QueuedFrames # {} /\ TaskDone(mainPc)

\* C7 (as claimed): when the wait timed out, close() was not called and the
\* program has no step left to take, the session is over: receiver and _run
\* have ended, the WebSocket is closed and the event channel is closed.
C7_TimeoutEndsSession ==
  (timedOut /\ ~closed /\ ~ENABLED ProgramStep)
    => /\ TaskDone(recvPc)
       /\ TaskDone(mainPc)
       /\ conn = "closed"
       /\ event_closed

\* C8: a result-generated message with heartbeat set or with a text that is
\* empty after trimming adds no event; any other adds exactly one, FINAL when
\* sentence_end is set and INTERIM otherwise.
C8_ResultEvents ==
  [][\A m \in ResultMsgs \cup {WsMsg("TEXT", "result-generated")} :
       RecvMessage(m) =>
         LET new == SubSeq(event_ch', Len(event_ch) + 1, Len(event_ch')) IN
         /\ SubSeq(event_ch', 1, Len(event_ch)) = event_ch
         /\ IF m.heartbeat \/ Strip(m.text) = <<>>
              THEN new = <<>>
              ELSE /\ Len(new) = 1
                   /\ new[1].type = IF m.sentence_end THEN "FINAL_TRANSCRIPT"
                                    ELSE "INTERIM_TRANSCRIPT"]_vars

C8_Witness ==
  /\ \E i \in DOMAIN event_ch : event_ch[i].type = "FINAL_TRANSCRIPT"
  /\ \E i \in DOMAIN event_ch : event_ch[i].type = "INTERIM_TRANSCRIPT"
  /\ nInbound - unread > Len(event_ch)

\* C9 (as claimed): once a task-failed event has been handled, no step sends
\* a binary audio message.
C9_NoAudioAfterFailed == [][failedSeen => NumBinary(sent') = NumBinary(sent)]_vars

\* C10 (as claimed): when a terminal event has been handled, close() was not
\* called and the program has no step left to take, the event channel is
\* closed.
C10_TerminalClosesEvents ==
  (terminalSeen /\ ~timedOut /\ ~closed /\ ~ENABLED ProgramStep) => event_closed

\* The event loop runs every task that is ready: a step of the program that
\* stays possible is eventually taken.  The caller and the remote service
\* owe nothing.
AclosePending(c) == aclosePc[c] \in {"join", "wsclose"}

\* C11 (as claimed): once two overlapping aclose() calls have returned, the
\* WebSocket's close was called exactly once.
C11_ExactlyOneClose ==
  (concurrent /\ aclosePc[1] = "done" /\ aclosePc[2] = "done") => nWsClose = 1

\* C11 (amended): the program calls the WebSocket's close at most once; once
\* two aclose() calls have returned no connection is open, and a connection
\* that was opened was closed exactly once, by that call or by the remote
\* side; and a pending aclose() is never stuck.
C11_CloseAtMostOnce ==
  /\ nWsClose <= 1
  /\ (aclosePc[1] = "done" /\ aclosePc[2] = "done") =>
       /\ conn # "open"
       /\ conn = "closed" => nWsClose + (IF peerClosed THEN 1 ELSE 0) = 1
       /\ conn = "unopened" => nWsClose = 0
  /\ \A c \in Callers : AclosePending(c) => ENABLED ProgramStep

C11_Witness ==
  /\ concurrent
  /\ aclosePc[1] = "done" /\ aclosePc[2] = "done"
  /\ mainPc = "cancelled" /\ ws = "conn"
  /\ nWsClose = 1

\* C12: every aclose() call ends (a call that has not returned always has a
\* program step ahead of it), and once a call has returned the sender and the
\* receiver are not running, the main task has ended, the WebSocket is not
\* open and the event channel is closed, whatever the session was doing when
\* the call was made.
C12_AcloseCompletes ==
  \A c \in Callers :
    /\ AclosePending(c) => ENABLED (RunStart \/ RunConnectFailed \/ RunGathered
                                      \/ RunClosed \/ RunCloseCancelled
                                      \/ SendCancelled
                                      \/ RecvCancelled \/ AcloseResumed(c))
    /\ aclosePc[c] = "done" =>
         /\ sendPc \in {"absent", "done", "cancelled"}
         /\ recvPc \in {"absent", "done", "cancelled"}
         /\ TaskDone(mainPc)
         /\ conn # "open"
         /\ event_closed

\* An aclose() made while the session was streaming has returned.
C12_Witness ==
  /\ aclosePc[1] = "done"
  /\ sendPc = "cancelled" /\ recvPc = "cancelled" /\ mainPc = "cancelled"
  /\ NumBinary(sent) > 0 /\ QueuedFrames # {}
  /\ conn = "closed" /\ event_closed

\* C13: whenever the main task has ended, by whatever path (both coroutines
\* returned, connect failed, cancelled by aclose(), cancelled again while the
\* finally block was closing), the WebSocket is not open.
C13_NoLeakedSocket ==
  TaskDone(mainPc) => conn # "open"

\* The main task was cancelled a second time while its finally block awaited
\* the close: self._ws is still set, and the connection is closed.
C13_Witness ==
  /\ mainPc = "cancelled" /\ ws = "conn" /\ conn = "closed"
  /\ aclosePc[2] # "idle"

\* C14: when ws_connect fails and aclose() is not called, the session ends
\* with nothing sent, neither coroutine started, and the event channel closed
\* so that the consumer sees the end.
C14_ConnectFailureEndsEvents ==
  (connectFailed /\ ~closed /\ ~ENABLED ProgramStep) =>
    /\ sent = <<>>
    /\ sendPc = "absent" /\ recvPc = "absent"
    /\ mainPc = "done"
    /\ event_closed

\* C15: once aclose() has been called while the sender waits for the
\* task-started event, the sender's only step is to end cancelled: it neither
\* runs into the timeout nor enters the send loop, it writes nothing, and a
\* cancelled sender stays ended and silent; aclose() itself gets past its
\* join without the cancellation reaching its caller.
C15_CancelledWhileWaiting ==
  [][ /\ (sendPc = "awaitStart" /\ closed) =>
           /\ sendPc' \in {"awaitStart", "cancelled"}
           /\ timedOut' = timedOut
           /\ NumBinary(sent') = NumBinary(sent)
      /\ sendPc = "cancelled" => (sendPc' = "cancelled" /\ sent' = sent)
      /\ \A c \in Callers :
           (aclosePc[c] = "join" /\ aclosePc'[c] # "join") =>
              aclosePc'[c] \in {"wsclose", "done"} ]_vars

\* aclose() has returned after interrupting a sender that had frames waiting
\* and had not been acknowledged.
C15_Witness ==
  /\ RunTaskSent /\ ~task_started_event /\ ~timedOut
  /\ sendPc = "cancelled" /\ QueuedFrames # {}
  /\ aclosePc[1] = "done"

\* What the sender has written when every pushed frame and the finish command
\* have gone out.
WholeSession ==
  <<RunTaskMsg(local_task_id)>> \o [i \in 1..nPushed |-> BinaryMsg(i)]
    \o <<FinishTaskMsg(local_task_id)>>

\* C16: when the input channel has been closed on an acknowledged session
\* whose connection the remote side leaves open and on which aclose() is
\* not called, the program does not come to rest before it has written every
\* pushed frame, in order, and the finish-task command after the last one.
C16_DrainThenFinish ==
  (/\ input_closed /\ task_started_event /\ RunTaskSent
   /\ ~timedOut /\ ~peerClosed /\ ~closed
   /\ ~ENABLED ProgramStep)
  => sent = WholeSession

\* Frames were pushed, the input was closed, and the sender has finished.
C16_Witness ==
  /\ input_closed /\ task_started_event /\ ~closed /\ ~peerClosed
  /\ nPushed = MaxFrames
  /\ sendPc = "done" /\ sent = WholeSession
  /\ ~ENABLED ProgramStep

FinishSent == \E i \in DOMAIN sent : sent[i].action = "finish-task"

\* C17: once finish-task has been written and the receiver has read
\* task-finished, or the remote side has closed the connection, the program
\* does not come to rest, with aclose() never called, before the sender and
\* the receiver have ended, the main task has completed and the WebSocket is
\* closed.
C17_FinishedCompletes ==
  (/\ FinishSent
   /\ (terminalSeen /\ ~failedSeen) \/ peerClosed
   /\ ~closed
   /\ ~ENABLED ProgramStep)
  => /\ TaskDone(sendPc) /\ TaskDone(recvPc)
     /\ mainPc = "done"
     /\ ws = "None" /\ conn = "closed"
     /\ ~running

\* The session completed on task-finished, by itself.
C17_Witness ==
  /\ FinishSent /\ terminalSeen /\ ~failedSeen /\ ~peerClosed /\ ~closed
  /\ mainPc = "done" /\ conn = "closed" /\ nWsClose = 1

\* C18: when the receiver has seen the WebSocket fail or close, the program
\* does not come to rest, with no further push and no aclose(), before the
\* sender and the main task have ended too.
C18_PeerCloseStopsSender ==
  (peerClosed /\ ~closed /\ ~ENABLED ProgramStep) =>
    /\ TaskDone(recvPc)
    /\ TaskDone(sendPc)
    /\ TaskDone(mainPc)

IsTranscript(m) ==
  /\ m.type = "TEXT" /\ m.event = "result-generated"
  /\ m.hasSentence /\ ~m.heartbeat /\ Len(Strip(m.text)) > 0

\* C19: the event channel grows only at its end and only when the receiver
\* reads a result-generated message that is not suppressed, by exactly one
\* event carrying that message's text; reading task-started or any other
\* message adds nothing, and no other step touches the events already there,
\* so the consumer gets the events in the order the messages were read.
C19_EventsInArrivalOrder ==
  [][ /\ \A m \in InboundMsgs :
           RecvMessage(m) =>
             IF IsTranscript(m) /\ ~event_closed
               THEN /\ Len(event_ch') = Len(event_ch) + 1
                    /\ SubSeq(event_ch', 1, Len(event_ch)) = event_ch
                    /\ event_ch'[Len(event_ch')].text = Strip(m.text)
               ELSE event_ch' = event_ch
      /\ ~(\E m \in InboundMsgs : RecvMessage(m)) => event_ch' = event_ch ]_vars

\* Two different events wait in the channel and task-started was read too.
C19_Witness ==
  /\ Len(event_ch) >= 2
  /\ event_ch[1] # event_ch[2]
  /\ task_started_event
  /\ nInbound = 3

Commands == {i \in DOMAIN sent : sent[i].action \in {"run-task", "finish-task"}}

\* C20: at most one run-task command is written, and every command written
\* carries the identifier the session generated when it was constructed,
\* which never changes.
C20_SessionTaskId ==
  /\ task_id = ShortUuidTaskId(1)
  /\ Cardinality({i \in Commands : sent[i].action = "run-task"}) <= 1
  /\ \A i \in Commands : sent[i].task_id = task_id

\* C21: the finally block of _run starts closing the WebSocket only when the
\* sender and the receiver have both ended: whenever _run is closing, or the
\* program has called the close, or _run has ended after a gather, neither
\* coroutine is still running.
C21_CloseAfterBothEnded ==
  (\/ mainPc = "closing"
   \/ nWsClose > 0
   \/ TaskDone(mainPc) /\ sendPc # "absent")
  => TaskDone(sendPc) /\ TaskDone(recvPc)

\* The receiver had ended early on a terminal event, aclose() then cancelled
\* the run, and the cleanup is closing the WebSocket.
C21_Witness ==
  /\ mainPc = "closing" /\ mainExit = "cancelled"
  /\ terminalSeen /\ recvPc = "done"
  /\ sendPc = "cancelled" /\ NumBinary(sent) > 0
  /\ nWsClose = 1

\* One participant: feed_stt and handle_stt run side by side on one stream.
ParticipantStep == ProgramStep \/ HandleStt

ParticipantNext ==
  \/ FeedStt
  \/ FeedEnds
  \/ ServerSend
  \/ ParticipantStep

ParticipantSpec == Init /\ [][ParticipantNext]_vars

\* C22: a further invocation of _run that starts while the first one has
\* begun and not yet ended returns at once: it sets nothing, opens nothing
\* and sends nothing, and in particular does not go on to connect.
C22_ReentryReturns ==
  [][ (rerunPc = "idle" /\ rerunPc' # "idle" /\ ~TaskDone(mainPc) /\ mainPc # "init")
        => /\ rerunPc' = "returned"
           /\ running' = running
           /\ ws' = ws /\ conn' = conn /\ sent' = sent ]_vars

FeedSttDone == aclosePc[1] = "done"

\* C23: once feed_stt has left its loop it is inside aclose() or past it, and
\* the participant's tasks do not come to rest before aclose() has returned
\* with the event channel closed, handle_stt has taken every event that was
\* delivered and left its loop, and with that the gather of feed_stt and
\* handle_stt is over; handle_stt never leaves its loop before the channel
\* is closed and drained.
C23_ParticipantTerminates ==
  /\ (aclosePc[1] # "idle" /\ ~ENABLED ParticipantStep) =>
       /\ FeedSttDone
       /\ event_closed /\ event_ch = <<>>
       /\ handlePc = "done"
       /\ TaskDone(mainPc) /\ conn # "open"
  /\ FeedSttDone => event_closed
  /\ handlePc = "done" => (event_closed /\ event_ch = <<>> /\ FeedSttDone)

\* The audio ended while the session was streaming; feed_stt and handle_stt
\* have both returned.
C23_Witness ==
  /\ FeedSttDone /\ handlePc = "done"
  /\ mainPc = "cancelled" /\ sendPc = "cancelled" /\ NumBinary(sent) > 0
  /\ nPushed = MaxFrames

====
